---- MODULE Spec2Model ----
(***************************************************************************)
(* QuoridorGame (src/Quoridor.py): a two player game on a 9x9 board.  The  *)
(* state is the three position arrays of self._board (pawns, vertical      *)
(* fences, horizontal fences), the two fence counts and the turn flag.     *)
(* move_pawn and place_fence are the two public operations; each is        *)
(* modelled as an operator from a game state and its arguments to the      *)
(* value returned and the state left behind, and as an action that applies *)
(* that operator to the current state.                                     *)
(***************************************************************************)
EXTENDS Integers, Sequences, FiniteSets, TLC

VARIABLES board,               \* self._board[array][column][row]
          player_one_fences,   \* self._player_one_fences
          player_two_fences,   \* self._player_two_fences
          first_player_turn,   \* self._first_player_turn
          last                 \* the last call made and what it returned

vars == <<board, player_one_fences, player_two_fences, first_player_turn, last>>

(***************************************************************************)
(* Program constants.                                                      *)
(***************************************************************************)
BoardSize == 9
StartFences == 10
MiddleColumn == 4

(***************************************************************************)
(* Bounds of the model: the arguments the calls are made with.             *)
(*   move_pawn destinations: columns MiddleColumn-Reach..MiddleColumn+Reach *)
(*   of every row, and the cells one step outside the board;               *)
(*   place_fence anchors: the anchors FenceInputs lists.                   *)
(***************************************************************************)
Reach == 1

Last == BoardSize - 1
Index == 0 .. Last
Squares == Index \X Index
Players == {1, 2}

\* Values a call can return.  Python's True, False and None are written as
\* strings so that they can stand beside the fair play warning string and
\* beside a raised IndexError.
PyTrue == "True"
PyFalse == "False"
PyNone == "None"
FairPlayWarning == "breaks the fair play rule"
IndexError == "IndexError"

(***************************************************************************)
(* Python list indexing: self._board[a][i][j].  An index in -9..-1 counts  *)
(* from the end of the list, any other index outside 0..8 raises           *)
(* IndexError.                                                             *)
(***************************************************************************)
InList(i) == -BoardSize <= i /\ i <= Last
Wrap(i) == IF i < 0 THEN i + BoardSize ELSE i
Readable(i, j) == InList(i) /\ InList(j)
Item(b, a, i, j) == b[a][Wrap(i)][Wrap(j)]

\* __init__: three 9x9 arrays of 0, pawns at (4,0) and (4,8).
EmptyBoard == [a \in 0 .. 2 |-> [x \in Index |-> [y \in Index |-> 0]]]
\* A faulty variant of the initial board with the two pawns on each other's rows.
InitialBoardSwapped == [EmptyBoard EXCEPT ![0][MiddleColumn][0] = 2, ![0][MiddleColumn][Last] = 1]
InitialBoard == [EmptyBoard EXCEPT ![0][MiddleColumn][0] = 1, ![0][MiddleColumn][Last] = 2]

\* The game state as one value, for the operators below.
State(b, one, two, turn) == [board |-> b, one |-> one, two |-> two, turn |-> turn]
Cur == State(board, player_one_fences, player_two_fences, first_player_turn)

\* _position: the first column holding the player's pawn, then the first row
\* of that column holding it; None when the pawn layer does not hold the player.
NoPosition == <<>>
RECURSIVE FirstRow(_, _, _, _)
FirstRow(b, player, column, row) ==
    IF row > Last THEN NoPosition
    ELSE IF b[0][column][row] = player THEN <<column, row>>
    ELSE FirstRow(b, player, column, row + 1)

RECURSIVE FirstColumn(_, _, _)
FirstColumn(b, player, column) ==
    IF column > Last THEN NoPosition
    ELSE LET found == FirstRow(b, player, column, 0)
         IN  IF found # NoPosition THEN found
             ELSE FirstColumn(b, player, column + 1)

_position(b, player) == FirstColumn(b, player, 0)

\* A faulty variant of _is_adjacent that takes the four diagonal squares as
\* adjacent too.
IsAdjacentOrDiagonal(origin, target) ==
    target \in {<<origin[1] + dx, origin[2] + dy>> : dx, dy \in -1 .. 1} \ {origin}

\* _is_adjacent
_is_adjacent(origin, target) ==
    target \in {<<origin[1], origin[2] + 1>>, <<origin[1], origin[2] - 1>>,
                <<origin[1] + 1, origin[2]>>, <<origin[1] - 1, origin[2]>>}

\* is_winner
is_winner(b, player) ==
    \/ player = 1 /\ _position(b, player)[2] = Last
    \/ player = 2 /\ _position(b, player)[2] = 0

\* Faulty variants of _player_may_move: one that forgets whose turn it is,
\* one that forgets that the game may be won.
PlayerMayMoveOutOfTurn(s, player) ==
    IF is_winner(s.board, 1) \/ is_winner(s.board, 2) THEN FALSE ELSE TRUE

PlayerMayMoveAfterWin(s, player) ==
    IF player = 1 /\ ~s.turn THEN FALSE
    ELSE IF player = 2 /\ s.turn THEN FALSE
    ELSE TRUE

\* _player_may_move
_player_may_move(s, player) ==
    IF is_winner(s.board, 1) \/ is_winner(s.board, 2) THEN FALSE
    ELSE IF player = 1 /\ ~s.turn THEN FALSE
    ELSE IF player = 2 /\ s.turn THEN FALSE
    ELSE TRUE

\* The opponent as _move_blocked and the jump methods find it: from the turn flag.
TurnOpponent(s) == IF s.turn THEN 2 ELSE 1

\* A test "if self._board[a][i][j]:" or "... == 1": the value read, or IndexError.
Fence(b, a, i, j) ==
    IF ~Readable(i, j) THEN IndexError
    ELSE IF Item(b, a, i, j) # 0 THEN PyTrue ELSE PyFalse

\* A faulty variant of _move_blocked that takes a fence to span two squares:
\* a horizontal fence the columns x-1 and x, a vertical fence the rows y-1 and y.
BlockedByLongFence(b, opponent_at, origin, destination) ==
    LET Either(a, i, j, more, i2, j2) ==
            IF Fence(b, a, i, j) = PyTrue \/ (more /\ Fence(b, a, i2, j2) = PyTrue)
            THEN PyTrue ELSE PyFalse
    IN  IF opponent_at = destination THEN PyTrue
        ELSE IF origin[1] = destination[1]
             THEN IF destination[2] < origin[2]
                  THEN Either(2, origin[1], origin[2], origin[1] < Last, origin[1] + 1, origin[2])
                  ELSE Either(2, origin[1], origin[2] + 1, origin[1] < Last, origin[1] + 1, origin[2] + 1)
             ELSE IF destination[1] < origin[1]
                  THEN Either(1, origin[1], origin[2], origin[2] < Last, origin[1], origin[2] + 1)
                  ELSE Either(1, origin[1] + 1, origin[2], origin[2] < Last, origin[1] + 1, origin[2] + 1)

\* A faulty variant of _move_blocked that reads the fence at the origin for a
\* step in either direction.
BlockedAtOrigin(b, opponent_at, origin, destination) ==
    IF opponent_at = destination THEN PyTrue
    ELSE IF origin[1] = destination[1]
         THEN Fence(b, 2, origin[1], origin[2])
         ELSE Fence(b, 1, origin[1], origin[2])

\* A faulty variant of _move_blocked that does not look for the opponent's pawn.
BlockedByFenceOnly(b, opponent_at, origin, destination) ==
    IF origin[1] = destination[1]
    THEN IF destination[2] < origin[2]
         THEN Fence(b, 2, origin[1], origin[2])
         ELSE Fence(b, 2, origin[1], origin[2] + 1)
    ELSE IF destination[1] < origin[1]
         THEN Fence(b, 1, origin[1], origin[2])
         ELSE Fence(b, 1, origin[1] + 1, origin[2])

\* _move_blocked, given the square it finds the opponent's pawn on.
Blocked(b, opponent_at, origin, destination) ==
    IF opponent_at = destination THEN PyTrue
    ELSE IF origin[1] = destination[1]
         THEN IF destination[2] < origin[2]
              THEN Fence(b, 2, origin[1], origin[2])
              ELSE Fence(b, 2, origin[1], origin[2] + 1)
         ELSE IF destination[1] < origin[1]
              THEN Fence(b, 1, origin[1], origin[2])
              ELSE Fence(b, 1, origin[1] + 1, origin[2])

\* _move_blocked
_move_blocked(s, origin, destination) ==
    Blocked(s.board, _position(s.board, TurnOpponent(s)), origin, destination)

\* "self._board[a][i1][j1] == 0 and self._board[a][i2][j2] == 0" followed by
\* "return True"; the method returns None when the test fails.
BothClear(b, a, i1, j1, i2, j2) ==
    IF ~Readable(i1, j1) THEN IndexError
    ELSE IF Item(b, a, i1, j1) # 0 THEN PyNone
    ELSE IF ~Readable(i2, j2) THEN IndexError
    ELSE IF Item(b, a, i2, j2) # 0 THEN PyNone
    ELSE PyTrue

\* "if not self._board[a][i][j]: return True", else fall to "return False".
IfClear(b, a, i, j) ==
    IF ~Readable(i, j) THEN IndexError
    ELSE IF Item(b, a, i, j) = 0 THEN PyTrue ELSE PyFalse

\* An operator's argument is evaluated once, a LET definition at every use:
\* the methods below that read a pawn position several times are written as
\* an operator on the positions, applied to the _position calls of the method.

\* _is_legal_diagonal_from_column, with play = _position(player) and
\* opp = _position(opponent)
FromColumn(b, play, opp, target) ==
    LET Sides == IF target[1] = opp[1] + 1 THEN IfClear(b, 1, opp[1] + 1, opp[2])
                 ELSE IF target[1] = opp[1] - 1 THEN IfClear(b, 1, opp[1], opp[2])
                 ELSE PyFalse
        up == IF opp[2] = target[2] /\ target[2] = play[2] + 1
              THEN Fence(b, 2, opp[1], opp[2]) ELSE PyFalse
        down == IF opp[2] = target[2] /\ target[2] = play[2] - 1
                THEN Fence(b, 2, opp[1], opp[2] + 1) ELSE PyFalse
    IN  IF opp[1] # play[1] THEN PyFalse
        ELSE IF up = IndexError THEN IndexError
        ELSE IF up = PyTrue THEN Sides
        ELSE IF down = IndexError THEN IndexError
        ELSE IF down = PyTrue THEN Sides
        ELSE PyFalse

_is_legal_diagonal_from_column(s, player, target) ==
    FromColumn(s.board, _position(s.board, player), _position(s.board, TurnOpponent(s)), target)

\* _is_legal_diagonal_from_row, likewise
FromRow(b, play, opp, target) ==
    LET Sides == IF target[2] = opp[2] + 1 THEN IfClear(b, 2, opp[1], opp[2])
                 ELSE IF target[2] = opp[2] - 1 THEN IfClear(b, 2, opp[1], opp[2] + 1)
                 ELSE PyFalse
        right == IF opp[1] = target[1] /\ target[1] = play[1] + 1
                 THEN Fence(b, 1, opp[1] + 1, opp[2]) ELSE PyFalse
        left == IF opp[1] = target[1] /\ target[1] = play[1] - 1
                THEN Fence(b, 1, opp[1], opp[2]) ELSE PyFalse
    IN  IF opp[2] # play[2] THEN PyFalse
        ELSE IF right = IndexError THEN IndexError
        ELSE IF right = PyTrue THEN Sides
        ELSE IF left = IndexError THEN IndexError
        ELSE IF left = PyTrue THEN Sides
        ELSE PyFalse

_is_legal_diagonal_from_row(s, player, target) ==
    FromRow(s.board, _position(s.board, player), _position(s.board, TurnOpponent(s)), target)

\* "return A or B"
PyOr(first, second) ==
    IF first = IndexError THEN IndexError
    ELSE IF first = PyTrue THEN PyTrue
    ELSE second

\* _is_legal_diagonal
_is_legal_diagonal(s, player, target) ==
    PyOr(_is_legal_diagonal_from_column(s, player, target),
         _is_legal_diagonal_from_row(s, player, target))

\* _is_legal_jump, with play = _position(player) and opp = _position(opponent)
Jump(s, player, play, opp, target) ==
    IF play[1] = target[1] /\ target[1] = opp[1]
    THEN IF target[2] = play[2] + 2 /\ opp[2] = play[2] + 1
         THEN BothClear(s.board, 2, target[1], target[2], target[1], target[2] - 1)
         ELSE IF target[2] = play[2] - 2 /\ opp[2] = play[2] - 1
         THEN BothClear(s.board, 2, target[1], target[2] + 1, target[1], target[2] + 2)
         ELSE PyNone
    ELSE IF play[2] = target[2] /\ target[2] = opp[2]
    THEN IF target[1] = play[1] + 2 /\ opp[1] = play[1] + 1
         THEN BothClear(s.board, 1, target[1], target[2], target[1], target[2] - 1)
         ELSE IF target[1] = play[1] - 2 /\ opp[1] = play[1] - 1
         THEN BothClear(s.board, 1, target[1], target[2] + 1, target[1], target[2] + 2)
         ELSE PyNone
    ELSE _is_legal_diagonal(s, player, target)

_is_legal_jump(s, player, target) ==
    Jump(s, player, _position(s.board, player), _position(s.board, TurnOpponent(s)), target)

\* "if self._move_blocked(...): return False", then "return True"
Unblocked(blocked) ==
    IF blocked = IndexError THEN IndexError
    ELSE IF blocked = PyTrue THEN PyFalse
    ELSE PyTrue

\* _is_legal_move, with here = _position(player) and there = _position(opponent)
LegalMove(s, player, here, there, destination) ==
    IF ~(0 <= destination[1] /\ destination[1] <= Last)
       \/ ~(0 <= destination[2] /\ destination[2] <= Last) THEN PyFalse
    ELSE IF _is_adjacent(here, there) /\ ~_is_adjacent(here, destination)
    THEN _is_legal_jump(s, player, destination)
    ELSE IF ~_is_adjacent(here, destination) THEN PyFalse
    ELSE Unblocked(_move_blocked(s, here, destination))

_is_legal_move(s, player, destination) ==
    LegalMove(s, player, _position(s.board, player),
              _position(s.board, IF player = 1 THEN 2 ELSE 1), destination)

\* What a call leaves: the value returned (or the exception raised) and the state.
Outcome(ret, s) == [ret |-> ret, st |-> s]

\* Lines 49-53 of move_pawn, with here = _position(player)
MoveTo(s, player, here, destination) ==
    [s EXCEPT !.turn = ~s.turn,
              !.board = [[s.board EXCEPT ![0][here[1]][here[2]] = 0]
                            EXCEPT ![0][destination[1]][destination[2]] = player]]

MoveIf(s, player, destination, legal) ==
    IF legal = IndexError THEN Outcome(IndexError, s)
    ELSE IF legal # PyTrue THEN Outcome(PyFalse, s)
    ELSE Outcome(PyTrue, MoveTo(s, player, _position(s.board, player), destination))

\* move_pawn
move_pawn(s, player, destination) ==
    IF ~_player_may_move(s, player) THEN Outcome(PyFalse, s)
    ELSE MoveIf(s, player, destination, _is_legal_move(s, player, destination))

\* The four squares _rec_is_valid_path tries from a space, in its order.
Around(space, k) ==
    IF k = 1 THEN <<space[1], space[2] + 1>>
    ELSE IF k = 2 THEN <<space[1], space[2] - 1>>
    ELSE IF k = 3 THEN <<space[1] - 1, space[2]>>
    ELSE <<space[1] + 1, space[2]>>

\* The squares of a list.  A search is [list, in_list, add_counter]: in_list
\* is kept equal to Elements(list) and decides "new_space not in space_list".
Elements(list) == {list[k] : k \in 1 .. Len(list)}

\* A faulty variant of TryOne whose "not in space_list" test misses the
\* first element of the list.
TryOneMissingFirst(b, opponent_at, space, new_space, search) ==
    IF /\ 0 <= new_space[1] /\ new_space[1] <= Last
       /\ 0 <= new_space[2] /\ new_space[2] <= Last
       /\ Blocked(b, opponent_at, space, new_space) = PyFalse
       /\ new_space \notin Elements(Tail(search[1]))
    THEN <<Append(search[1], new_space), search[2] \cup {new_space}, search[3] + 1>>
    ELSE search

\* A faulty variant of TryOne that does not ask _move_blocked.
TryOneThroughFences(b, opponent_at, space, new_space, search) ==
    IF /\ 0 <= new_space[1] /\ new_space[1] <= Last
       /\ 0 <= new_space[2] /\ new_space[2] <= Last
       /\ new_space \notin search[2]
    THEN <<Append(search[1], new_space), search[2] \cup {new_space}, search[3] + 1>>
    ELSE search

\* One turn of the inner loop "for new_space in new_list"
TryOne(b, opponent_at, space, new_space, search) ==
    IF /\ 0 <= new_space[1] /\ new_space[1] <= Last
       /\ 0 <= new_space[2] /\ new_space[2] <= Last
       /\ Blocked(b, opponent_at, space, new_space) = PyFalse
       /\ new_space \notin search[2]
    THEN <<Append(search[1], new_space), search[2] \cup {new_space}, search[3] + 1>>
    ELSE search

\* The inner loop, from its k-th square on.  The board does not change during
\* the search, so the square _move_blocked finds the opponent on is found once.
RECURSIVE TryAround(_, _, _, _, _)
TryAround(b, opponent_at, space, k, search) ==
    IF k > 4 THEN search
    ELSE TryAround(b, opponent_at, space, k + 1,
                   TryOne(b, opponent_at, space, Around(space, k), search))

\* _rec_is_valid_path: Walk is the loop "for space in space_list" from index i
\* on (the list grows while it is walked); depth counts the recursive calls.
RECURSIVE Walk(_, _, _, _, _, _)
Walk(b, opponent_at, search, end_row, i, depth) ==
    IF i > Len(search[1])
    THEN IF search[3] = 0
         THEN [result |-> FALSE, visited |-> search[1], calls |-> depth]
         ELSE Walk(b, opponent_at, <<search[1], search[2], 0>>, end_row, 1, depth + 1)
    ELSE IF search[1][i][2] = end_row
         THEN [result |-> TRUE, visited |-> search[1], calls |-> depth]
         ELSE Walk(b, opponent_at, TryAround(b, opponent_at, search[1][i], 1, search),
                   end_row, i + 1, depth)

_rec_is_valid_path(s, space_list, end_row) ==
    Walk(s.board, _position(s.board, TurnOpponent(s)),
         <<space_list, Elements(space_list), 0>>, end_row, 1, 1)

\* A faulty variant of SearchFrom that leaves the proposed fence on the board.
SearchFromNoReset(proposed, opponent, win_row, fence_index, coords) ==
    [result |-> _rec_is_valid_path(proposed, <<_position(proposed.board, opponent)>>,
                                   win_row).result,
     board |-> proposed.board]

\* Lines 332-347 of _is_valid_path, with proposed the state holding the
\* proposed fence: the result of the search, and the board it leaves (the
\* proposed square reset to 0).
SearchFrom(proposed, opponent, win_row, fence_index, coords) ==
    [result |-> _rec_is_valid_path(proposed, <<_position(proposed.board, opponent)>>,
                                   win_row).result,
     board |-> [proposed.board EXCEPT ![fence_index][coords[1]][coords[2]] = 0]]

\* A faulty variant of _is_valid_path that searches the placing player's own
\* path instead of the opponent's.
IsValidPathOfPlacer(s, player, fence_index, coords) ==
    [result |-> _rec_is_valid_path([s EXCEPT !.board[fence_index][coords[1]][coords[2]] = 1],
                                   <<_position(s.board, player)>>,
                                   IF player = 1 THEN Last ELSE 0).result,
     board |-> s.board]

\* _is_valid_path
_is_valid_path(s, player, fence_index, coords) ==
    SearchFrom([s EXCEPT !.board[fence_index][coords[1]][coords[2]] = 1],
               IF player = 1 THEN 2 ELSE 1, IF player = 1 THEN 0 ELSE Last,
               fence_index, coords)

\* A faulty variant of PlaceIf that takes every fence from player 1's count.
PlaceIfFromOneCount(s, player, fence_index, coords, path) ==
    IF ~path.result THEN Outcome(FairPlayWarning, [s EXCEPT !.board = path.board])
    ELSE Outcome(PyTrue,
                 [s EXCEPT !.board = [path.board EXCEPT ![fence_index][coords[1]][coords[2]] = 1],
                           !.one = @ - 1,
                           !.turn = ~@])

\* Lines 87-104 of place_fence, with path what _is_valid_path gave
PlaceIf(s, player, fence_index, coords, path) ==
    IF ~path.result THEN Outcome(FairPlayWarning, [s EXCEPT !.board = path.board])
    ELSE Outcome(PyTrue,
                 [s EXCEPT !.board = [path.board EXCEPT ![fence_index][coords[1]][coords[2]] = 1],
                           !.one = IF player = 1 THEN @ - 1 ELSE @,
                           !.two = IF player = 2 THEN @ - 1 ELSE @,
                           !.turn = ~@])

\* A faulty variant of PlaceAt whose range test lets row 0 through for a
\* horizontal fence and column 0 for a vertical one.
PlaceAtFromZero(s, player, fence_index, coords) ==
    IF ~(0 <= coords[1] /\ coords[1] <= Last) \/ ~(0 <= coords[2] /\ coords[2] <= Last)
    THEN Outcome(PyFalse, s)
    ELSE IF s.board[fence_index][coords[1]][coords[2]] = 1 THEN Outcome(PyFalse, s)
    ELSE PlaceIf(s, player, fence_index, coords,
                 _is_valid_path(s, player, fence_index, coords))

\* Lines 77-104 of place_fence
PlaceAt(s, player, fence_index, coords) ==
    IF fence_index = 1 /\ (~(1 <= coords[1] /\ coords[1] <= Last)
                            \/ ~(0 <= coords[2] /\ coords[2] <= Last))
    THEN Outcome(PyFalse, s)
    ELSE IF fence_index = 2 /\ (~(0 <= coords[1] /\ coords[1] <= Last)
                                 \/ ~(1 <= coords[2] /\ coords[2] <= Last))
    THEN Outcome(PyFalse, s)
    ELSE IF s.board[fence_index][coords[1]][coords[2]] = 1 THEN Outcome(PyFalse, s)
    ELSE PlaceIf(s, player, fence_index, coords,
                 _is_valid_path(s, player, fence_index, coords))

\* A faulty variant of place_fence that does not look at the player's fence
\* count.
PlaceFenceWithoutCount(s, player, orientation, coords) ==
    IF ~_player_may_move(s, player) THEN Outcome(PyFalse, s)
    ELSE IF orientation = "v" THEN PlaceAt(s, player, 1, coords)
    ELSE IF orientation = "h" THEN PlaceAt(s, player, 2, coords)
    ELSE Outcome(PyFalse, s)

\* place_fence
place_fence(s, player, orientation, coords) ==
    IF ~_player_may_move(s, player) THEN Outcome(PyFalse, s)
    ELSE IF player = 1 /\ s.one = 0 THEN Outcome(PyFalse, s)
    ELSE IF player = 2 /\ s.two = 0 THEN Outcome(PyFalse, s)
    ELSE IF orientation = "v" THEN PlaceAt(s, player, 1, coords)
    ELSE IF orientation = "h" THEN PlaceAt(s, player, 2, coords)
    ELSE Outcome(PyFalse, s)

(***************************************************************************)
(* The arguments of the calls.  Pawns are sent along the middle column and *)
(* along CrossRow, Reach columns either side of it, and to squares outside *)
(* the board; fences are asked for on the two edges of the square where    *)
(* the column and the row cross, outside the valid range and with an       *)
(* orientation that is neither "v" nor "h".                                *)
(***************************************************************************)
CrossRow == Last - 1

Destinations ==
    {<<MiddleColumn, y>> : y \in -1 .. BoardSize}
    \cup {<<x, CrossRow>> : x \in MiddleColumn - Reach .. MiddleColumn + Reach}
    \cup {<<-1, 0>>, <<BoardSize, Last>>}

FenceInputs ==
    {<<"v", <<MiddleColumn, CrossRow>>>>, <<"h", <<MiddleColumn, CrossRow>>>>,
     <<"v", <<0, 0>>>>, <<"h", <<0, 0>>>>, <<"d", <<MiddleColumn, CrossRow>>>>}

(***************************************************************************)
(* The state machine.                                                      *)
(***************************************************************************)
Call(op, player, ret) == [op |-> op, player |-> player, ret |-> ret]

Init ==
    /\ board = InitialBoard
    /\ player_one_fences = StartFences
    /\ player_two_fences = StartFences
    /\ first_player_turn = TRUE
    /\ last = Call("__init__", 0, PyNone)

Becomes(s) ==
    /\ board' = s.board
    /\ player_one_fences' = s.one
    /\ player_two_fences' = s.two
    /\ first_player_turn' = s.turn

\* A call of move_pawn with a destination of D
MovePawn(D) ==
    \E player \in Players, destination \in D :
        \E out \in {move_pawn(Cur, player, destination)} :
            /\ Becomes(out.st)
            /\ last' = Call("move_pawn", player, out.ret)

\* A call of place_fence with an orientation and coordinates of F
PlaceFence(F) ==
    \E player \in Players, fence \in F :
        \E out \in {place_fence(Cur, player, fence[1], fence[2])} :
            /\ Becomes(out.st)
            /\ last' = Call("place_fence", player, out.ret)

Next == MovePawn(Destinations) \/ PlaceFence(FenceInputs)

Spec == Init /\ [][Next]_vars

(***************************************************************************)
(* The fence arena: the pawns step between their first two rows, and       *)
(* fences are asked for on the three edges around player 1's first square  *)
(* (4,0), which together close it.                                         *)
(***************************************************************************)
FenceArenaDestinations ==
    {<<MiddleColumn, 0>>, <<MiddleColumn, 1>>, <<MiddleColumn, Last - 1>>, <<MiddleColumn, Last>>}

FenceArenaInputs ==
    {<<"v", <<MiddleColumn, 0>>>>, <<"v", <<MiddleColumn + 1, 0>>>>, <<"h", <<MiddleColumn, 1>>>>,
     <<"h", <<MiddleColumn, 0>>>>, <<"d", <<MiddleColumn, 1>>>>}

NextFence == MovePawn(FenceArenaDestinations) \/ PlaceFence(FenceArenaInputs)

SpecFence == Init /\ [][NextFence]_vars

(***************************************************************************)
(* What the claims speak of, stated apart from the methods.                *)
(***************************************************************************)
Opponent(player) == IF player = 1 THEN 2 ELSE 1
GoalRow(player) == IF player = 1 THEN Last ELSE 0
ToMove == IF first_player_turn THEN 1 ELSE 2
PawnSquares(b, player) == {c \in Squares : b[0][c[1]][c[2]] = player}
Won(b) == (\E c \in PawnSquares(b, 1) : c[2] = Last) \/ (\E c \in PawnSquares(b, 2) : c[2] = 0)
FenceCells(b) == {<<a, c>> \in {1, 2} \X Squares : b[a][c[1]][c[2]] # 0}

\* The fence part of the engine's blocking test for a step between two
\* adjacent squares (no pawn stands on NoPosition).
FenceBlocks(b, from, to) == Blocked(b, NoPosition, from, to) # PyFalse

Neighbours(c) ==
    {d \in {<<c[1], c[2] + 1>>, <<c[1], c[2] - 1>>, <<c[1] - 1, c[2]>>, <<c[1] + 1, c[2]>>} :
        d \in Squares}

\* The squares that can be reached from the squares of reached by steps the
\* blocking test lets through; frontier holds the squares reached last.
RECURSIVE Spread(_, _, _)
Spread(b, reached, frontier) ==
    IF frontier = {} THEN reached
    ELSE Spread(b, reached \cup frontier,
                UNION {{d \in Neighbours(c) : ~FenceBlocks(b, c, d)} : c \in frontier}
                    \ (reached \cup frontier))

ReachableFrom(b, start) == Spread(b, {}, {start})

HasPath(b, player) ==
    \E start \in PawnSquares(b, player) :
        \E c \in ReachableFrom(b, start) : c[2] = GoalRow(player)

Accepted(op) == last.op = op /\ last.ret = PyTrue

\* C1: immediately after an accepted place_fence call, both players have a
\* path from their pawn to their own goal row through in-bounds squares,
\* with every placed fence blocking as the engine's blocking test says.
BothPathsAfterFence ==
    Accepted("place_fence") => HasPath(board, 1) /\ HasPath(board, 2)

\* The fence a call asks for passes the turn, budget, orientation, range and
\* occupancy checks of place_fence.
FenceIndex(orientation) == IF orientation = "v" THEN 1 ELSE 2
InRange(orientation, coords) ==
    IF orientation = "v"
    THEN coords[1] \in 1 .. Last /\ coords[2] \in 0 .. Last
    ELSE coords[1] \in 0 .. Last /\ coords[2] \in 1 .. Last
PassesChecks(player, fence) ==
    /\ ~Won(board)
    /\ player = ToMove
    /\ (IF player = 1 THEN player_one_fences ELSE player_two_fences) > 0
    /\ fence[1] \in {"v", "h"}
    /\ InRange(fence[1], fence[2])
    /\ <<FenceIndex(fence[1]), fence[2]>> \notin FenceCells(board)
WithFence(b, fence) == [b EXCEPT ![FenceIndex(fence[1])][fence[2][1]][fence[2][2]] = 1]

\* C2: a place_fence call by the player to move that passes the earlier
\* checks and would leave the opponent's pawn without a path to the
\* opponent's goal row returns the fair play warning, and leaves the fences
\* on the board and both fence counts as they were.
FairPlayRejected ==
    \A player \in Players, fence \in FenceArenaInputs \cup FenceInputs :
        (PassesChecks(player, fence) /\ ~HasPath(WithFence(board, fence), Opponent(player)))
        => \E out \in {place_fence(Cur, player, fence[1], fence[2])} :
              /\ out.ret = FairPlayWarning
              /\ FenceCells(out.st.board) = FenceCells(board)
              /\ out.st.one = player_one_fences
              /\ out.st.two = player_two_fences

\* A fence was refused for the fair play rule: player 1's pawn stands on its
\* first square with two of the three edges around it fenced.
FairPlayRejectedSeen ==
    /\ last.op = "place_fence" /\ last.ret = FairPlayWarning
    /\ Cardinality(FenceCells(board)) = 2
    /\ PawnSquares(board, 1) = {<<MiddleColumn, 0>>}

\* The calls the model makes in either arena, and coordinates of every kind.
AnyDestinations == Destinations \cup FenceArenaDestinations
AnyFenceInputs == FenceInputs \cup FenceArenaInputs
AnyCoords == (-1 .. BoardSize) \X (-1 .. BoardSize)

\* C3: a move_pawn or place_fence call that returns anything but True leaves
\* the pawns, both fence layers, both fence counts and the turn flag exactly
\* as they were; the fence the fair play check writes is not left behind.
RejectedLeavesState ==
    /\ \A player \in Players, destination \in AnyDestinations :
          \E out \in {move_pawn(Cur, player, destination)} :
              out.ret # PyTrue => out.st = Cur
    /\ \A player \in Players, fence \in AnyFenceInputs :
          \E out \in {place_fence(Cur, player, fence[1], fence[2])} :
              out.ret # PyTrue => out.st = Cur

\* Player 2 was refused the fence that would close player 1's square, and the
\* board holds no more than the two fences placed before.
RejectedFenceNotLeft ==
    /\ last = Call("place_fence", 2, FairPlayWarning)
    /\ FenceCells(board) = {<<1, <<MiddleColumn, 0>>>>, <<1, <<MiddleColumn + 1, 0>>>>}

\* C4: the turn flag flips on every accepted call and on no other call, and
\* a call is accepted only from the player to move (so accepted calls go
\* player 1, player 2, player 1, ...).
TurnAlternates ==
    [][/\ last'.ret = PyTrue => first_player_turn' = ~first_player_turn /\ last'.player = ToMove
       /\ last'.ret # PyTrue => first_player_turn' = first_player_turn]_vars

\* Player 2's call was accepted after player 1's: it is player 1's turn again.
SecondPlayerAccepted ==
    /\ last.player = 2 /\ last.ret = PyTrue
    /\ first_player_turn
    /\ PawnSquares(board, 1) # {<<MiddleColumn, 0>>}

\* C5: is_winner(1) iff player 1's pawn is on row 8, is_winner(2) iff
\* player 2's pawn is on row 0; once either holds every call of either
\* player is rejected and changes nothing.
WinIsTerminal ==
    /\ is_winner(board, 1) <=> \E c \in PawnSquares(board, 1) : c[2] = Last
    /\ is_winner(board, 2) <=> \E c \in PawnSquares(board, 2) : c[2] = 0
    /\ (is_winner(board, 1) \/ is_winner(board, 2)) =>
          /\ \A player \in Players, destination \in AnyDestinations :
                move_pawn(Cur, player, destination) = Outcome(PyFalse, Cur)
          /\ \A player \in Players, fence \in AnyFenceInputs :
                place_fence(Cur, player, fence[1], fence[2]) = Outcome(PyFalse, Cur)

\* Player 2 has won and a later call was rejected.
RejectedAfterWin ==
    /\ is_winner(board, 2)
    /\ last.ret = PyFalse

\* C6: no move_pawn or place_fence call raises an unhandled fault.
NeverFaults == last.ret # IndexError

\* C7: the pawn layer holds exactly one square marked 1 and exactly one
\* marked 2 (so the pawns are on the board and on different squares).
OnePawnEach ==
    /\ Cardinality(PawnSquares(board, 1)) = 1
    /\ Cardinality(PawnSquares(board, 2)) = 1
    /\ \A c \in Squares : board[0][c[1]][c[2]] \in {0, 1, 2}

\* A pawn has just moved and stands beside the other pawn.
MovedBesideOpponent ==
    /\ Accepted("move_pawn")
    /\ \E c \in PawnSquares(board, 1), d \in PawnSquares(board, 2) : d \in Neighbours(c)

(***************************************************************************)
(* The budget arena: the pawns step between their first two rows, and      *)
(* fences are asked for one after the other along rows of vertical fences  *)
(* starting at LineRow, which close no path, so that both players can      *)
(* spend all their fences.                                                 *)
(***************************************************************************)
LineRow == 3

\* The k-th fence of the line, k = 1, 2, ...
Line(k) == <<"v", <<1 + ((k - 1) % Last), LineRow + ((k - 1) \div Last)>>>>

\* The next fence of the line, a fence outside the valid range and one with
\* an orientation that is neither "v" nor "h".
NextOnLine ==
    {Line(Cardinality(FenceCells(board)) + 1), <<"v", <<0, LineRow>>>>, <<"d", <<1, LineRow>>>>}

NextBudget == MovePawn(FenceArenaDestinations) \/ PlaceFence(NextOnLine)

SpecBudget == Init /\ [][NextBudget]_vars

Budget(player) == IF player = 1 THEN player_one_fences ELSE player_two_fences

\* What an accepted place_fence call of player takes from player's count.
Spent(call, player) ==
    IF call.op = "place_fence" /\ call.player = player /\ call.ret = PyTrue THEN 1 ELSE 0

\* C8: both fence counts start at 10; a call takes exactly 1 from the count
\* of the player whose place_fence call it is when that call is accepted,
\* and leaves the counts otherwise; no count is ever negative; and while a
\* player's count is 0, every place_fence call by that player is rejected,
\* whatever the orientation and coordinates.
FenceBudget ==
    /\ player_one_fences = 10 /\ player_two_fences = 10
    /\ [](\A player \in Players :
            /\ Budget(player) >= 0
            /\ Budget(player) = 0 =>
                  \A orientation \in {"v", "h", "d"}, coords \in AnyCoords :
                      place_fence(Cur, player, orientation, coords) = Outcome(PyFalse, Cur))
    /\ [][/\ player_one_fences' = player_one_fences - Spent(last', 1)
          /\ player_two_fences' = player_two_fences - Spent(last', 2)]_vars

\* Player 1 has spent all ten fences, it is player 1's turn in a game that
\* is not won, and player 1's place_fence call was rejected, although one of
\* the fences asked for would be accepted with a fence left.
NoFencesRemaining ==
    /\ player_one_fences = 0
    /\ first_player_turn /\ ~Won(board)
    /\ last = Call("place_fence", 1, PyFalse)
    /\ \E fence \in NextOnLine :
          place_fence([Cur EXCEPT !.one = 1], 1, fence[1], fence[2]).ret = PyTrue

\* The squares of the player to move and of the other player, and the square
\* a straight jump from me over opp lands on.
Me == _position(board, ToMove)
Opp == _position(board, Opponent(ToMove))
Beyond(me, opp) == <<2 * opp[1] - me[1], 2 * opp[2] - me[2]>>

\* C9: when the player to move, in a game that is not won, stands beside the
\* opponent and asks for the in-bounds square straight beyond the opponent,
\* move_pawn accepts if and only if the blocking test finds no fence between
\* the two pawns and none between the opponent and that square.
StraightJump ==
    \A me \in {Me}, opp \in {Opp} : \A destination \in {Beyond(me, opp)} \cap Squares :
        (~Won(board) /\ opp \in Neighbours(me))
        => (move_pawn(Cur, ToMove, destination).ret = PyTrue
            <=> ~FenceBlocks(board, me, opp) /\ ~FenceBlocks(board, opp, destination))

\* The squares diagonally next to a square.
Diagonals(c) ==
    {d \in {<<c[1] - 1, c[2] - 1>>, <<c[1] - 1, c[2] + 1>>,
            <<c[1] + 1, c[2] - 1>>, <<c[1] + 1, c[2] + 1>>} : d \in Squares}

\* C10: whenever move_pawn accepts a square diagonally next to the acting
\* pawn, the opponent stands beside the acting pawn and beside that square,
\* no fence lies between the pawns, a fence lies between the opponent and
\* the square straight beyond it, and no fence lies between the opponent and
\* the square asked for.
DiagonalJump ==
    \A me \in {Me}, opp \in {Opp} : \A destination \in Diagonals(me) :
        move_pawn(Cur, ToMove, destination).ret = PyTrue
        => /\ opp \in Neighbours(me)
           /\ destination \in Neighbours(opp)
           /\ ~FenceBlocks(board, me, opp)
           /\ Beyond(me, opp) \in Squares /\ FenceBlocks(board, opp, Beyond(me, opp))
           /\ ~FenceBlocks(board, opp, destination)

(***************************************************************************)
(* The jump arena: the pawns are sent as in the play arena, and the one    *)
(* fence asked for is the horizontal fence on the far edge of square       *)
(* (4,7), behind a pawn that stands there for a pawn that stands on (4,6). *)
(***************************************************************************)
JumpFenceInputs == {<<"h", <<MiddleColumn, Last>>>>, <<"d", <<MiddleColumn, Last>>>>}

NextJump == MovePawn(Destinations) \/ PlaceFence(JumpFenceInputs)

SpecJump == Init /\ [][NextJump]_vars

\* C11: when the player to move stands beside the opponent, a fence lies
\* between the opponent and the square straight beyond it, and no fence lies
\* on any other edge of the opponent's square (the edge between the pawns
\* included), move_pawn to the square beyond is rejected and move_pawn to
\* each in-bounds square that is beside the opponent and diagonally next to
\* the player is accepted.
DiagonalWhenFenceBehind ==
    \A me \in {Me}, opp \in {Opp} : \A beyond \in {Beyond(me, opp)} \cap Squares :
        (/\ ~Won(board)
         /\ opp \in Neighbours(me)
         /\ FenceBlocks(board, opp, beyond)
         /\ \A side \in Neighbours(opp) \ {beyond} : ~FenceBlocks(board, opp, side))
        => /\ move_pawn(Cur, ToMove, beyond).ret = PyFalse
           /\ \A destination \in Neighbours(opp) \cap Diagonals(me) :
                 move_pawn(Cur, ToMove, destination).ret = PyTrue

\* The number of steps between two squares.
Abs(n) == IF n < 0 THEN -n ELSE n
Distance(a, b) == Abs(a[1] - b[1]) + Abs(a[2] - b[2])

\* The squares, on the board or not, at most k columns and k rows from a square.
Within(c, k) == {<<c[1] + dx, c[2] + dy>> : dx, dy \in -k .. k}

\* C12: for the player to move in a game that is not won, with the pawns not
\* side by side, move_pawn accepts a destination if and only if it is on the
\* board, one step from the pawn, and the blocking test finds no fence between
\* the two squares, and rejects every other destination (those up to two
\* columns and rows away and those the arenas ask for are tried); with the
\* pawns side by side, move_pawn onto the opponent's square is rejected.
OrdinaryStep ==
    \A me \in {Me}, opp \in {Opp} :
        ~Won(board) =>
            IF Distance(me, opp) # 1
            THEN \A destination \in Within(me, 2) \cup AnyDestinations :
                    move_pawn(Cur, ToMove, destination).ret =
                        IF /\ destination \in Squares
                           /\ Distance(me, destination) = 1
                           /\ ~FenceBlocks(board, me, destination)
                        THEN PyTrue ELSE PyFalse
            ELSE move_pawn(Cur, ToMove, opp).ret = PyFalse

\* A pawn has just stepped with the pawns apart, and the player to move
\* stands at a fenced edge of its square, again with the pawns apart.
SteppedBesideFence ==
    /\ Accepted("move_pawn") /\ ~Won(board)
    /\ Distance(Me, Opp) > 2
    /\ \E destination \in Neighbours(Me) : FenceBlocks(board, Me, destination)

\* The fence square that lies on the edge between two squares one step
\* apart: the vertical fence at the right-hand square of the two, or the
\* horizontal fence at the upper one.
EdgeFence(a, b) ==
    IF a[2] = b[2]
    THEN <<1, <<IF a[1] > b[1] THEN a[1] ELSE b[1], a[2]>>>>
    ELSE <<2, <<a[1], IF a[2] > b[2] THEN a[2] ELSE b[2]>>>>

\* C13 as amended: every placed fence blocks one edge, in both directions,
\* and no other: a vertical fence at (x,y) the step between (x-1,y) and (x,y),
\* a horizontal fence at (x,y) the step between (x,y-1) and (x,y).  So the
\* blocking test, which move_pawn and the path search share, finds a fence
\* between two squares exactly when the fence square of their edge is set.
FenceBlocksOneEdge ==
    \A cells \in {FenceCells(board)} :
        \A a \in Squares : \A b \in Neighbours(a) :
            FenceBlocks(board, a, b) <=> EdgeFence(a, b) \in cells

\* C13: a vertical fence at (x,y) blocks the step between columns x-1 and x
\* at row y and at row y-1 (when on the board); a horizontal fence at (x,y)
\* blocks the step between rows y-1 and y at column x and at column x-1
\* (when on the board).
FenceBlocksTwoEdges ==
    \A fence \in FenceCells(board) :
        \E x \in {fence[2][1]}, y \in {fence[2][2]} :
            IF fence[1] = 1
            THEN /\ FenceBlocks(board, <<x - 1, y>>, <<x, y>>)
                 /\ y - 1 \in Index => FenceBlocks(board, <<x - 1, y - 1>>, <<x, y - 1>>)
            ELSE /\ FenceBlocks(board, <<x, y - 1>>, <<x, y>>)
                 /\ x - 1 \in Index => FenceBlocks(board, <<x - 1, y - 1>>, <<x - 1, y>>)

\* A fence was just accepted, the player to move stands on one side of it
\* with the other pawn away, and is refused the step across it.
FenceJustPlacedBlocks ==
    /\ Accepted("place_fence") /\ ~Won(board)
    /\ Distance(Me, Opp) > 2
    /\ \E destination \in Neighbours(Me) :
          /\ EdgeFence(Me, destination) \in FenceCells(board)
          /\ move_pawn(Cur, ToMove, destination).ret = PyFalse

\* C14: place_fence is accepted only with an orientation of "v" or "h", an
\* anchor in that orientation's range and no fence on that anchor yet: a call
\* that fails one of the three returns False and leaves the state (counts and
\* turn flag included) as it was; and every fence on the board has its
\* anchor in range.
FenceAnchors ==
    \A cells \in {FenceCells(board)} :
        /\ \A cell \in cells : InRange(IF cell[1] = 1 THEN "v" ELSE "h", cell[2])
        /\ \A player \in Players, orientation \in {"v", "h", "d"}, coords \in AnyCoords :
              (\/ orientation \notin {"v", "h"}
               \/ ~InRange(orientation, coords)
               \/ <<FenceIndex(orientation), coords>> \in cells)
              => place_fence(Cur, player, orientation, coords) = Outcome(PyFalse, Cur)

\* The player to move, with fences left in a game that is not won, was
\* refused a fence, and the fence count and the turn are what the last
\* accepted call left.
FenceRefused ==
    /\ ~Won(board) /\ Budget(ToMove) > 0
    /\ last = Call("place_fence", ToMove, PyFalse)
    /\ \E fence \in FenceArenaInputs :
          /\ fence[1] \in {"v", "h"} /\ InRange(fence[1], fence[2])
          /\ <<FenceIndex(fence[1]), fence[2]>> \in FenceCells(board)

\* C15: the state __init__ leaves has player 1's pawn on (4,0), player 2's
\* on (4,8), no fence, both fence counts at 10, no winner and player 1 to
\* move; from it move_pawn(1,(4,1)) is accepted, leaves player 1 on (4,1)
\* and everything else but the turn as it was, and makes it player 2's turn;
\* and every call of player 2 is rejected and changes nothing.
InitialState ==
    last.op = "__init__" =>
        /\ PawnSquares(board, 1) = {<<4, 0>>} /\ PawnSquares(board, 2) = {<<4, 8>>}
        /\ FenceCells(board) = {}
        /\ player_one_fences = 10 /\ player_two_fences = 10
        /\ ~is_winner(board, 1) /\ ~is_winner(board, 2)
        /\ first_player_turn
        /\ \E out \in {move_pawn(Cur, 1, <<4, 1>>)} :
              /\ out.ret = PyTrue
              /\ PawnSquares(out.st.board, 1) = {<<4, 1>>}
              /\ PawnSquares(out.st.board, 2) = {<<4, 8>>}
              /\ FenceCells(out.st.board) = {}
              /\ out.st.one = 10 /\ out.st.two = 10
              /\ ~out.st.turn
        /\ \A destination \in AnyDestinations \cup Within(<<4, 8>>, 2) :
              move_pawn(Cur, 2, destination) = Outcome(PyFalse, Cur)
        /\ \A fence \in AnyFenceInputs \cup JumpFenceInputs :
              place_fence(Cur, 2, fence[1], fence[2]) = Outcome(PyFalse, Cur)

\* The first call made was move_pawn(1,(4,1)): player 1 stands on (4,1),
\* player 2 on (4,8), there is no fence and it is player 2's turn.
FirstStepTaken ==
    /\ last = Call("move_pawn", 1, PyTrue)
    /\ PawnSquares(board, 1) = {<<4, 1>>} /\ PawnSquares(board, 2) = {<<4, 8>>}
    /\ FenceCells(board) = {}
    /\ ~first_player_turn

(***************************************************************************)
(* The search arena.  The path search is a function of the fences, of the  *)
(* square it starts from and of the row it looks for, so its arena draws   *)
(* the fences: any of the fences on the open edges of the first            *)
(* PocketDepth squares of column 0 (which close the corner square, or the  *)
(* squares together, when enough of them stand), with player 1's pawn on   *)
(* one of those squares or on the next one of the column, player 2's pawn  *)
(* on its first square, and either player to move.  The fence counts are   *)
(* those of players who placed the fences in turn.  The one step of the    *)
(* arena is the call place_fence makes of _is_valid_path.                  *)
(***************************************************************************)
PocketDepth == 2

PocketFences ==
    UNION {{<<"v", <<1, y>>>>, <<"h", <<0, y + 1>>>>} : y \in 0 .. PocketDepth - 1}

PocketSquares == {<<0, y>> : y \in 0 .. PocketDepth}

RECURSIVE WithFences(_, _)
WithFences(b, fences) ==
    IF fences = {} THEN b
    ELSE LET fence == CHOOSE f \in fences : TRUE
         IN  WithFences(WithFence(b, fence), fences \ {fence})

InitSearch ==
    \E fences \in SUBSET PocketFences, square \in PocketSquares, turn \in BOOLEAN :
        /\ board = WithFences([EmptyBoard EXCEPT ![0][square[1]][square[2]] = 1,
                                                 ![0][MiddleColumn][Last] = 2], fences)
        /\ player_one_fences = StartFences - ((Cardinality(fences) + 1) \div 2)
        /\ player_two_fences = StartFences - (Cardinality(fences) \div 2)
        /\ first_player_turn = turn
        /\ last = Call("__init__", 0, PyNone)

\* The call of _is_valid_path that place_fence makes for a fence that has
\* passed its earlier checks.
IsValidPath(F) ==
    \E fence \in F :
        /\ PassesChecks(ToMove, fence)
        /\ \E path \in {_is_valid_path(Cur, ToMove, FenceIndex(fence[1]), fence[2])} :
              /\ board' = path.board
              /\ last' = Call("_is_valid_path", ToMove, IF path.result THEN PyTrue ELSE PyFalse)
        /\ UNCHANGED <<player_one_fences, player_two_fences, first_player_turn>>

NextSearch == IsValidPath(PocketFences)

SpecSearch == InitSearch /\ [][NextSearch]_vars

\* Reachability stated apart from the engine: two squares one step apart are
\* joined when the fence square of their edge is not set.
Joined(b, c, d) == \E e \in {EdgeFence(c, d)} : b[e[1]][e[2][1]][e[2][2]] = 0

RECURSIVE Flood(_, _, _)
Flood(b, reached, frontier) ==
    IF frontier = {} THEN reached
    ELSE Flood(b, reached \cup frontier,
               UNION {{d \in Neighbours(c) : Joined(b, c, d)} : c \in frontier}
                   \ (reached \cup frontier))

CanReachRow(b, start, row) == \E c \in Flood(b, {}, {start}) : c[2] = row

\* The board with a player's pawn lifted and set down on another square.
Lifted(b, from) == [b EXCEPT ![0][from[1]][from[2]] = 0]
PawnOn(b, player, square) ==
    [Lifted(b, _position(b, player)) EXCEPT ![0][square[1]][square[2]] = player]

\* C16: for every fence the player to move may ask for that passes the
\* checks before the search, _is_valid_path returns True if and only if a
\* square of the opponent's goal row (row 0 when player 1 places, row 8 when
\* player 2 places) can be reached from the opponent's pawn by steps between
\* squares of the board whose edge holds no fence, the fence asked for
\* counted; and the answer is the same wherever the placing player's pawn
\* stands.
SearchIsReachability ==
    \A player \in {ToMove}, fence \in PocketFences :
        PassesChecks(player, fence) =>
            \E answer \in {_is_valid_path(Cur, player, FenceIndex(fence[1]), fence[2]).result} :
                /\ answer = CanReachRow(WithFence(board, fence),
                                        _position(board, Opponent(player)),
                                        IF player = 1 THEN 0 ELSE Last)
                /\ \A square \in Neighbours(Opp) \ {Me} :
                      answer = _is_valid_path([Cur EXCEPT !.board = PawnOn(board, player, square)],
                                              player, FenceIndex(fence[1]), fence[2]).result

\* The search has just answered False for player 2: player 1's pawn stands
\* among fences one short of closing it in.
SearchAnsweredFalse ==
    /\ last = Call("_is_valid_path", 2, PyFalse)
    /\ HasPath(board, 1)

\* The squares a search is started from: the squares of the pocket, the
\* two ends and the middle of the middle column, and the far corners.
StartCells ==
    PocketSquares \cup {<<MiddleColumn, 0>>, <<MiddleColumn, MiddleColumn>>, <<MiddleColumn, Last>>}
        \cup {<<Last, 0>>, <<0, Last>>, <<Last, Last>>}

BoardCells == BoardSize * BoardSize

\* C17: from every start square and for either goal row, _rec_is_valid_path
\* comes to an answer of True or False within 81 calls of itself; the list it
\* leaves begins with the start square (it only grew), holds squares of the
\* board only, holds no square twice and so holds no more than 81 squares.
SearchTerminates ==
    \A start \in StartCells, end_row \in {0, Last} :
        \E walk \in {_rec_is_valid_path(Cur, <<start>>, end_row)} :
            /\ walk.result \in BOOLEAN
            /\ walk.calls \in 1 .. 81
            /\ Len(walk.visited) >= 1 /\ walk.visited[1] = start
            /\ Elements(walk.visited) \subseteq Squares
            /\ Cardinality(Elements(walk.visited)) = Len(walk.visited)
            /\ Len(walk.visited) <= 81

\* A search was made on a board where the search from the corner square for
\* the far row ends with False, having listed fewer squares than the board
\* has, and the search from the far corner ends with True.
SearchEndsBothWays ==
    /\ last.op = "_is_valid_path"
    /\ \E walk \in {_rec_is_valid_path(Cur, <<<<0, 0>>>>, Last)} :
          ~walk.result /\ Len(walk.visited) < BoardCells
    /\ _rec_is_valid_path(Cur, <<<<Last, Last>>>>, 0).result

\* C18: the fence cells set on the board are always as many as 20 less the
\* two fence counts; no step takes a fence off the board; and a step that
\* puts a fence on the board puts one, is an accepted place_fence call, and
\* takes 1 from the count of the player who made it and nothing from the
\* other's.
FencesConserved ==
    /\ [](Cardinality(FenceCells(board)) = 20 - (player_one_fences + player_two_fences))
    /\ [][/\ FenceCells(board) \subseteq FenceCells(board')
          /\ FenceCells(board') # FenceCells(board) =>
                /\ Cardinality(FenceCells(board') \ FenceCells(board)) = 1
                /\ last'.op = "place_fence" /\ last'.ret = PyTrue
                /\ \A player \in Players :
                      Budget(player)' = Budget(player) - (IF player = last'.player THEN 1 ELSE 0)]_vars

\* Both players have placed a fence, and a fence was refused for the fair
\* play rule after that.
BothPlacedThenRefused ==
    /\ player_one_fences < StartFences /\ player_two_fences < StartFences
    /\ last.op = "place_fence" /\ last.ret = FairPlayWarning

(***************************************************************************)
(* The closing arena: the pawns step between their first two rows, and     *)
(* fences are asked for one after the other: first the three fences        *)
(* around player 1's first square, then the fences of the budget arena's   *)
(* line, so that a player can spend all ten fences, the closing ones       *)
(* included.                                                               *)
(***************************************************************************)
ClosingFences ==
    <<<<"v", <<MiddleColumn, 0>>>>, <<"v", <<MiddleColumn + 1, 0>>>>, <<"h", <<MiddleColumn, 1>>>>>>

ClosingLine(k) == IF k <= Len(ClosingFences) THEN ClosingFences[k] ELSE Line(k - Len(ClosingFences))

NextToClose ==
    {ClosingLine(Cardinality(FenceCells(board)) + 1), <<"d", <<MiddleColumn, 1>>>>}

NextClosing == MovePawn(FenceArenaDestinations) \/ PlaceFence(NextToClose)

SpecClosing == Init /\ [][NextClosing]_vars

\* C19: in every state in which neither player has won, the player to move
\* has a call that is accepted: move_pawn to some square of the board, or
\* place_fence with "v" or "h" on some square of the board.
NoStuckGame ==
    ~Won(board) =>
        \/ \E destination \in Squares : move_pawn(Cur, ToMove, destination).ret = PyTrue
        \/ \E orientation \in {"v", "h"}, coords \in Squares :
              place_fence(Cur, ToMove, orientation, coords).ret = PyTrue

\* C20: for every two squares of the board one step apart, the fence part of
\* _move_blocked gives the same answer for the step from the first to the
\* second as for the step back: on the board as it is and, around the added
\* fence, on the board with any one more fence cell set.
BlockingSymmetric ==
    /\ \A a \in Squares : \A b \in Neighbours(a) :
          Blocked(board, NoPosition, a, b) = Blocked(board, NoPosition, b, a)
    /\ \A layer \in {1, 2}, anchor \in Squares :
          \E more \in {[board EXCEPT ![layer][anchor[1]][anchor[2]] = 1]} :
              \A a \in Within(anchor, 1) \cap Squares : \A b \in Neighbours(a) :
                  Blocked(more, NoPosition, a, b) = Blocked(more, NoPosition, b, a)

\* The path search has run on a board with a fence across a step along a
\* row and a fence across a step along a column, each stopping the step in
\* both directions.
FencedBothWays ==
    /\ last.op = "_is_valid_path"
    /\ \E a \in PocketSquares :
          /\ Blocked(board, NoPosition, a, <<a[1] + 1, a[2]>>) = PyTrue
          /\ Blocked(board, NoPosition, <<a[1] + 1, a[2]>>, a) = PyTrue
    /\ \E a \in PocketSquares :
          /\ Blocked(board, NoPosition, a, <<a[1], a[2] + 1>>) = PyTrue
          /\ Blocked(board, NoPosition, <<a[1], a[2] + 1>>, a) = PyTrue

====
